---------------------------- MODULE Spec2Model ----------------------------
(***************************************************************************)
(* First-species counterpoint generator (aszecsei/counterpoint).           *)
(*                                                                         *)
(* The theory crate (theory/src/lib.rs) supplies Note, Pitch, Interval and *)
(* Scale arithmetic; src/main.rs holds the backtracking search             *)
(* (counterpoint / counterpoint_helper), its rule pipeline and the         *)
(* shuffle.  The recursion of counterpoint_helper is modelled with an      *)
(* explicit stack of candidate lists, one frame per active loop.           *)
(***************************************************************************)
EXTENDS Integers, Sequences, FiniteSets, TLC

(***************************************************************************)
(* Bounds of the model.                                                    *)
(***************************************************************************)
\* longest cantus firmus drawn in Init
MaxLen == 4
\* longest cantus firmus drawn in InitRun
RunLen == 7
\* longest cantus firmus drawn in InitLeap
LeapLen == 3
\* largest |semitone offset| fed to the Pitch conversion in SpecPitch
MaxSemi == 40

(***************************************************************************)
(* theory/src/lib.rs : Interval                                            *)
(***************************************************************************)
Unison == 0
MinorSecond == 1
MajorSecond == 2
MinorThird == 3
MajorThird == 4
PerfectFourth == 5
Tritone == 6
PerfectFifth == 7
MinorSixth == 8
MajorSixth == 9
MinorSeventh == 10
MajorSeventh == 11

\* An Interval is represented by the number Interval::semitones gives it.
Interval_from_semitones(semitones) == semitones % 12

Abs(a) == IF a < 0 THEN -a ELSE a

(***************************************************************************)
(* theory/src/lib.rs : Note                                                *)
(***************************************************************************)
PitchBase == {"C", "D", "E", "F", "G", "A", "B"}
PitchModifier == {"DoubleFlat", "Flat", "Natural", "Sharp", "DoubleSharp"}

Note(base, modifier) == [base |-> base, modifier |-> modifier]

Note_semitones_from_c(n) ==
    LET base == CASE n.base = "C" -> 0
                  [] n.base = "D" -> 2
                  [] n.base = "E" -> 4
                  [] n.base = "F" -> 5
                  [] n.base = "G" -> 7
                  [] n.base = "A" -> 9
                  [] n.base = "B" -> 11
        modifier == CASE n.modifier = "DoubleFlat" -> -2
                      [] n.modifier = "Flat" -> -1
                      [] n.modifier = "Natural" -> 0
                      [] n.modifier = "Sharp" -> 1
                      [] n.modifier = "DoubleSharp" -> 2
    IN base + modifier

\* Every caller passes semitones >= -2, so the remainder is in 0..11.
Note_from_semitones_from_c(semitones) ==
    LET s1 == IF semitones < 0 THEN semitones + 12 ELSE semitones
        s2 == s1 % 12
    IN CASE s2 = 0 -> Note("C", "Natural")
         [] s2 = 1 -> Note("C", "Sharp")
         [] s2 = 2 -> Note("D", "Natural")
         [] s2 = 3 -> Note("D", "Sharp")
         [] s2 = 4 -> Note("E", "Natural")
         [] s2 = 5 -> Note("F", "Natural")
         [] s2 = 6 -> Note("F", "Sharp")
         [] s2 = 7 -> Note("G", "Natural")
         [] s2 = 8 -> Note("G", "Sharp")
         [] s2 = 9 -> Note("A", "Natural")
         [] s2 = 10 -> Note("A", "Sharp")
         [] s2 = 11 -> Note("B", "Natural")

\* impl PartialEq for Note
Note_eq(a, b) == Note_semitones_from_c(a) = Note_semitones_from_c(b)

\* impl Add<Interval> for Note
Note_add_Interval(n, interval) ==
    Note_from_semitones_from_c(Note_semitones_from_c(n) + interval)

(***************************************************************************)
(* theory/src/lib.rs : Pitch                                               *)
(***************************************************************************)
Pitch(note, octave) == [note |-> note, octave |-> octave]

\* The offsets are i8 in the source.  Pitches built by parse_music lie in
\* -49..60 and the search moves at most 28 semitones away from them, so no
\* sum or difference below leaves -128..127 and plain integers model them.
Pitch_semitones_from_middle_c(p) ==
    LET octave_difference == (p.octave - 4) * 12
    IN Note_semitones_from_c(p.note) + octave_difference

\* first loop of from_semitones_from_middle_c: while semitones < 0
RECURSIVE RaiseLoop(_, _)
RaiseLoop(semitones, octave_difference) ==
    IF semitones < 0
    THEN RaiseLoop(semitones + 12, octave_difference - 1)
    ELSE <<semitones, octave_difference>>

\* second loop of from_semitones_from_middle_c: while semitones > 12
RECURSIVE LowerLoop(_, _)
LowerLoop(semitones, octave_difference) ==
    IF semitones > 12
    THEN LowerLoop(semitones - 12, octave_difference + 1)
    ELSE <<semitones, octave_difference>>

Pitch_from_semitones_from_middle_c(semitones) ==
    LET a == RaiseLoop(semitones, 0)
        b == LowerLoop(a[1], a[2])
    IN Pitch(Note_from_semitones_from_c(b[1]), 4 + b[2])

\* impl Add<i8> for Pitch, impl Add<Interval> for Pitch
Pitch_add(p, other) ==
    Pitch_from_semitones_from_middle_c(Pitch_semitones_from_middle_c(p) + other)

\* impl Sub<i8> for Pitch, impl Sub<Interval> for Pitch
Pitch_sub(p, other) ==
    Pitch_from_semitones_from_middle_c(Pitch_semitones_from_middle_c(p) - other)

\* impl PartialEq for Pitch
Pitch_eq(a, b) == Pitch_semitones_from_middle_c(a) = Pitch_semitones_from_middle_c(b)

\* Pitch_sub_Pitch without the ordering of the operands: self - other, cast
\* to u8
Pitch_sub_PitchUnordered(a, b) ==
    Interval_from_semitones(
        (Pitch_semitones_from_middle_c(a) - Pitch_semitones_from_middle_c(b)) % 256)

\* impl Sub<Pitch> for Pitch : the Interval between two pitches
Pitch_sub_Pitch(a, b) ==
    LET lt == Pitch_semitones_from_middle_c(a) < Pitch_semitones_from_middle_c(b)
        bottom == IF lt THEN a ELSE b
        top == IF lt THEN b ELSE a
        semitones == Pitch_semitones_from_middle_c(top)
                       - Pitch_semitones_from_middle_c(bottom)
    IN Interval_from_semitones(semitones)


(***************************************************************************)
(* theory/src/lib.rs : Scale                                               *)
(***************************************************************************)
Scale(root, type) == [root |-> root, type |-> type]

SCALES_MAP(type) ==
    CASE type = "Ionian" ->
           <<MajorSecond, MajorSecond, MinorSecond, MajorSecond, MajorSecond, MajorSecond, MinorSecond>>
      [] type = "Dorian" ->
           <<MajorSecond, MinorSecond, MajorSecond, MajorSecond, MajorSecond, MinorSecond, MajorSecond>>
      [] type = "Phrygian" ->
           <<MinorSecond, MajorSecond, MajorSecond, MajorSecond, MinorSecond, MajorSecond, MajorSecond>>
      [] type = "Lydian" ->
           <<MajorSecond, MajorSecond, MajorSecond, MinorSecond, MajorSecond, MajorSecond, MinorSecond>>
      [] type = "Mixolydian" ->
           <<MajorSecond, MajorSecond, MinorSecond, MajorSecond, MajorSecond, MinorSecond, MajorSecond>>
      [] type = "Aeolian" ->
           <<MajorSecond, MinorSecond, MajorSecond, MajorSecond, MinorSecond, MajorSecond, MajorSecond>>
      [] type = "Locrian" ->
           <<MinorSecond, MajorSecond, MajorSecond, MinorSecond, MajorSecond, MajorSecond, MajorSecond>>
      [] type \in {"MelodicMinor", "WholeTone", "Pentatonic"} ->
           <<MajorSecond, MinorSecond, MajorSecond, MajorSecond, MajorSecond, MajorSecond, MinorSecond>>
      [] type = "HarmonicMinor" ->
           <<MajorSecond, MinorSecond, MajorSecond, MajorSecond, MinorSecond, MinorThird, MinorSecond>>
      [] type = "PhrygianDominant" ->
           <<MinorSecond, MinorThird, MinorSecond, MajorSecond, MinorSecond, MajorSecond, MajorSecond>>
      [] type = "HungarianMinor" ->
           <<MajorSecond, MinorSecond, MinorThird, MinorSecond, MinorSecond, MinorThird, MinorSecond>>

\* the loop of Scale::notes: result after the first k intervals
RECURSIVE NotesUpTo(_, _)
NotesUpTo(scale, k) ==
    IF k = 0
    THEN <<scale.root>>
    ELSE LET prev == NotesUpTo(scale, k - 1)
             last_note == prev[Len(prev)]
         IN Append(prev, Note_add_Interval(last_note, SCALES_MAP(scale.type)[k]))

Scale_notes(scale) == NotesUpTo(scale, Len(SCALES_MAP(scale.type)))

\* Vec<Note>::contains, through impl PartialEq for Note
Contains(scale_notes, n) == \E i \in 1..Len(scale_notes) : Note_eq(scale_notes[i], n)

(***************************************************************************)
(* src/main.rs : sign, shuffle                                             *)
(***************************************************************************)
sign(a) == IF a >= 0 THEN 1 ELSE -1

Swap(val, i, j) == [val EXCEPT ![i] = val[j], ![j] = val[i]]

\* The iterations i, i-1, .., 2 (1-based) of the loop of shuffle; every
\* value rng.gen_range(0, i) can return is a possible idx.
RECURSIVE ShuffleFrom(_, _)
ShuffleFrom(val, i) ==
    IF i < 2
    THEN {val}
    ELSE UNION {ShuffleFrom(Swap(val, i, idx), i - 1) : idx \in 1..(i - 1)}

\* the set of orders shuffle can leave val in
shuffle(val) == ShuffleFrom(val, Len(val))

(***************************************************************************)
(* src/main.rs : candidate generation                                      *)
(***************************************************************************)
\* The loops "for idx in (0..len).rev() { if .. { remove(idx) } }" keep, in
\* their order, the candidates that fail the test: SelectSeq below.
InScale(scale, option) == Contains(Scale_notes(scale), option.note)

\* counterpoint, lines 29-33
OpeningRaw(notes, direction) ==
    IF direction = "Above"
    THEN <<Pitch_add(notes[1], Unison), Pitch_add(notes[1], PerfectFifth),
           Pitch_add(notes[1], 12)>>
    ELSE <<Pitch_sub(notes[1], Unison), Pitch_sub(notes[1], PerfectFifth),
           Pitch_sub(notes[1], 12)>>

\* OpeningPitches without the scale filter
OpeningPitchesUnfiltered(notes, scale, direction) == OpeningRaw(notes, direction)

\* counterpoint, lines 29-42: the opening candidates that are in the scale
OpeningPitches(notes, scale, direction) ==
    SelectSeq(OpeningRaw(notes, direction), LAMBDA o : InScale(scale, o))

\* counterpoint_helper, lines 63-68
ClosingRaw(other_note, direction) ==
    IF direction = "Above"
    THEN <<Pitch_add(other_note, Unison), Pitch_add(other_note, 12)>>
    ELSE <<Pitch_sub(other_note, Unison), Pitch_sub(other_note, 12)>>

\* counterpoint_helper, lines 69-75
InteriorRaw(other_note, direction) ==
    IF direction = "Above"
    THEN <<Pitch_add(other_note, PerfectFifth), Pitch_add(other_note, MinorThird),
           Pitch_add(other_note, MajorThird), Pitch_add(other_note, MinorSixth),
           Pitch_add(other_note, MajorSixth), Pitch_add(other_note, 12),
           Pitch_add(Pitch_add(other_note, 12), MinorThird),
           Pitch_add(Pitch_add(other_note, 12), MajorThird)>>
    ELSE <<Pitch_sub(other_note, PerfectFifth), Pitch_sub(other_note, MinorThird),
           Pitch_sub(other_note, MajorThird), Pitch_sub(other_note, MinorSixth),
           Pitch_sub(other_note, MajorSixth), Pitch_sub(other_note, 12),
           Pitch_add(Pitch_sub(other_note, 12), MinorThird),
           Pitch_sub(Pitch_sub(other_note, 12), MajorThird)>>

\* counterpoint_helper, lines 60-76
RawOptions(notes, so_far, direction) ==
    LET other_note == notes[Len(so_far) + 1]
    IN IF Len(so_far) = Len(notes) - 1
       THEN ClosingRaw(other_note, direction)
       ELSE InteriorRaw(other_note, direction)

(***************************************************************************)
(* src/main.rs : the rule pipeline of counterpoint_helper.  Each rule is   *)
(* the condition under which its loop removes the candidate.               *)
(***************************************************************************)
Semis(p) == Pitch_semitones_from_middle_c(p)

IsThird(interval) == interval = MinorThird \/ interval = MajorThird
IsSixth(interval) == interval = MinorSixth \/ interval = MajorSixth

\* ParallelPerfect testing the fifth only
ParallelPerfectFifthOnly(notes, so_far, option) ==
    LET other_note == notes[Len(so_far) + 1]
        prev_note == so_far[Len(so_far)]
        other_prev_note == notes[Len(so_far)]
        motion == Semis(option) - Semis(prev_note)
        other_motion == Semis(other_note) - Semis(other_prev_note)
    IN /\ Pitch_sub_Pitch(option, other_note) = PerfectFifth
       /\ sign(motion) = sign(other_motion)

\* lines 86-100: direct or parallel fifths or octaves
ParallelPerfect(notes, so_far, option) ==
    LET other_note == notes[Len(so_far) + 1]
        prev_note == so_far[Len(so_far)]
        other_prev_note == notes[Len(so_far)]
        motion == Semis(option) - Semis(prev_note)
        other_motion == Semis(other_note) - Semis(other_prev_note)
    IN /\ \/ Pitch_sub_Pitch(option, other_note) = PerfectFifth
          \/ Pitch_sub_Pitch(option, other_note) = Unison
       /\ sign(motion) = sign(other_motion)

\* lines 102-109: more than a tenth from the other line
ExceedsTenth(notes, so_far, option) ==
    LET other == Semis(notes[Len(so_far) + 1])
    IN Abs(Semis(option) - other) > 12 + MajorThird

\* the break conditions at lines 118 and 127
SameKind(kind, interval) ==
    IF kind = "third" THEN IsThird(interval) ELSE IsSixth(interval)

\* lines 116-123 and 125-132: count, after walking so_far backwards while
\* the vertical interval stays of the given kind
RECURSIVE RunCount(_, _, _, _, _)
RunCount(notes, so_far, m_idx, count, kind) ==
    IF m_idx = 0
    THEN count
    ELSE IF ~SameKind(kind, Pitch_sub_Pitch(so_far[m_idx], notes[m_idx]))
         THEN count
         ELSE RunCount(notes, so_far, m_idx - 1, count + 1, kind)

\* RunTooLong with the count started at 0: the candidate itself is not counted
RunTooLongFromZero(notes, so_far, option) ==
    LET interval == Pitch_sub_Pitch(option, notes[Len(so_far) + 1])
        count == IF IsThird(interval)
                 THEN RunCount(notes, so_far, Len(so_far), 0, "third")
                 ELSE IF IsSixth(interval)
                      THEN RunCount(notes, so_far, Len(so_far), 0, "sixth")
                      ELSE 0
    IN count > 3

\* lines 111-137: parallel thirds or sixths more than three notes at a time
RunTooLong(notes, so_far, option) ==
    LET interval == Pitch_sub_Pitch(option, notes[Len(so_far) + 1])
        count == IF IsThird(interval)
                 THEN RunCount(notes, so_far, Len(so_far), 1, "third")
                 ELSE IF IsSixth(interval)
                      THEN RunCount(notes, so_far, Len(so_far), 1, "sixth")
                      ELSE 1
    IN count > 3

\* lines 139-157: both voices skip in the same direction
BothSkip(notes, so_far, option) ==
    LET other_note == notes[Len(so_far) + 1]
        prev_note == so_far[Len(so_far)]
        other_prev_note == notes[Len(so_far)]
        motion == Semis(option) - Semis(prev_note)
        other_motion == Semis(other_note) - Semis(other_prev_note)
        is_skip == Abs(motion) > MajorSecond
        is_other_skip == Abs(other_motion) > MajorSecond
    IN is_skip /\ is_other_skip /\ sign(motion) = sign(other_motion)

\* lines 159-166: the same note more than twice (compares the Note fields)
RepeatedNote(so_far, option) ==
    /\ Len(so_far) > 1
    /\ Note_eq(option.note, so_far[Len(so_far)].note)
    /\ Note_eq(so_far[Len(so_far)].note, so_far[Len(so_far) - 1].note)

\* LeapTooLarge without the abs(): only upward leaps are measured
LeapTooLargeSigned(so_far, option) ==
    Semis(option) - Semis(so_far[Len(so_far)]) > 12

\* lines 169-177: leap of more than an octave
LeapTooLarge(so_far, option) ==
    Abs(Semis(option) - Semis(so_far[Len(so_far)])) > 12

\* lines 179-187: leap by a tritone
TritoneLeap(so_far, option) ==
    Abs(Semis(option) - Semis(so_far[Len(so_far)])) = Tritone

\* lines 189-199: the last note is approached by step
FinalNotStepwise(notes, so_far, option) ==
    /\ Len(so_far) = Len(notes) - 1
    /\ Abs(Semis(option) - Semis(so_far[Len(so_far)])) > MajorSecond

\* lines 201-216: after a leap, go the opposite direction by step
LeapNotRecovered(so_far, option) ==
    /\ Len(so_far) > 1
    /\ LET prev_note == so_far[Len(so_far)]
           prev_prev_note == so_far[Len(so_far) - 1]
           motion == Semis(prev_note) - Semis(prev_prev_note)
           curr_motion == Semis(option) - Semis(prev_note)
       IN /\ Abs(motion) > MajorThird
          /\ \/ Abs(curr_motion) > MajorSecond
             \/ sign(curr_motion) = sign(motion)

\* lines 78-216: whether a raw candidate survives every rule
Survives(notes, so_far, scale, option) ==
    /\ InScale(scale, option)
    /\ ~ParallelPerfect(notes, so_far, option)
    /\ ~ExceedsTenth(notes, so_far, option)
    /\ ~RunTooLong(notes, so_far, option)
    /\ ~BothSkip(notes, so_far, option)
    /\ ~RepeatedNote(so_far, option)
    /\ ~LeapTooLarge(so_far, option)
    /\ ~TritoneLeap(so_far, option)
    /\ ~FinalNotStepwise(notes, so_far, option)
    /\ ~LeapNotRecovered(so_far, option)

\* IsComplete satisfied one note early
IsCompleteEarly(notes, so_far) == Len(so_far) >= Len(notes) - 1

\* line 56: the line is as long as the cantus
IsComplete(notes, so_far) == Len(so_far) = Len(notes)

\* lines 60-216: the candidates of counterpoint_helper before the shuffle
Options(notes, so_far, scale, direction) ==
    SelectSeq(RawOptions(notes, so_far, direction),
              LAMBDA o : Survives(notes, so_far, scale, o))

(***************************************************************************)
(* State.  notes, scale and direction are the arguments of counterpoint;   *)
(* stack[k] is what is left of the candidate list the k-th nested loop     *)
(* iterates (stack[1]: "for opening in opening_pitches", stack[k], k > 1:  *)
(* "for option in options" of the helper called on a prefix of k-1         *)
(* notes); so_far is the prefix the innermost active loop extends.         *)
(***************************************************************************)
VARIABLES notes, scale, direction, so_far, stack, outcome, result,
          semi, pitch, back,
          lhs, rhs, forward, backward, list, shuffled

\* the operands and results of a Pitch - Pitch, the input and output of a
\* shuffle: used by the specifications of these functions on their own
aux == <<lhs, rhs, forward, backward, list, shuffled>>

vars == <<notes, scale, direction, so_far, stack, outcome, result,
          semi, pitch, back, aux>>

C4 == Pitch(Note("C", "Natural"), 4)
D4 == Pitch(Note("D", "Natural"), 4)
E4 == Pitch(Note("E", "Natural"), 4)
F4 == Pitch(Note("F", "Natural"), 4)
C5 == Pitch(Note("C", "Natural"), 5)

\* the pitches cantus firmi are drawn from, as parse_music builds them
CantusPitches == {C4, D4, C5}

\* every cantus of at most MaxLen notes, the empty one included
Cantus == UNION {[1..n -> CantusPitches] : n \in 0..MaxLen}

Scales == {Scale(Note("C", "Natural"), "Ionian"), Scale(Note("B", "Natural"), "Ionian")}

Directions == {"Above", "Below"}

NoPitch == Pitch(Note("C", "Natural"), 4)

\* aux while no Pitch - Pitch and no shuffle on its own is modelled
InitAux ==
    /\ lhs = NoPitch
    /\ rhs = NoPitch
    /\ forward = Unison
    /\ backward = Unison
    /\ list = <<>>
    /\ shuffled = <<>>

\* the state on entry to counterpoint, the cantus drawn from cantusSet
InitWith(cantusSet) ==
    /\ notes \in cantusSet
    /\ scale \in Scales
    /\ direction \in Directions
    /\ so_far = <<>>
    /\ stack = <<>>
    /\ outcome = "start"
    /\ result = <<>>
    /\ semi = 0
    /\ pitch = NoPitch
    /\ back = 0
    /\ InitAux

Init == InitWith(Cantus)

\* counterpoint, lines 26-44: notes[0] is out of bounds on an empty cantus;
\* otherwise the opening candidates are filtered and shuffled
Start ==
    /\ outcome = "start"
    /\ IF Len(notes) = 0
       THEN /\ outcome' = "panic"
            /\ stack' = stack
       ELSE /\ outcome' = "running"
            /\ \E opening_pitches \in shuffle(OpeningPitches(notes, scale, direction)) :
                   stack' = <<opening_pitches>>
    /\ UNCHANGED <<aux, notes, scale, direction, so_far, result, semi, pitch, back>>

\* lines 46-47 / 221-225 then 56-58: the next candidate is appended and the
\* helper, called on a line as long as the cantus, returns it; every caller
\* returns it in turn (lines 48-49, 226-227)
Complete ==
    /\ outcome = "running"
    /\ stack # <<>>
    /\ stack[Len(stack)] # <<>>
    /\ LET r == Append(so_far, Head(stack[Len(stack)]))
       IN /\ IsComplete(notes, r)
          /\ outcome' = "some"
          /\ result' = r
          /\ stack' = <<>>
          /\ so_far' = r
    /\ UNCHANGED <<aux, notes, scale, direction, semi, pitch, back>>

\* lines 46-47 / 221-225 then 60-219: the next candidate is appended and the
\* helper, called on a shorter line, builds, filters and shuffles its options
Descend ==
    /\ outcome = "running"
    /\ stack # <<>>
    /\ stack[Len(stack)] # <<>>
    /\ LET r == Append(so_far, Head(stack[Len(stack)]))
       IN /\ ~IsComplete(notes, r)
          /\ \E options \in shuffle(Options(notes, r, scale, direction)) :
                 stack' = Append([stack EXCEPT ![Len(stack)] = Tail(@)], options)
          /\ so_far' = r
    /\ UNCHANGED <<aux, notes, scale, direction, outcome, result, semi, pitch, back>>

\* Backtrack where the calling loop returns the None it got instead of
\* going on to its next candidate
BacktrackGiveUp ==
    /\ outcome = "running"
    /\ Len(stack) > 1
    /\ stack[Len(stack)] = <<>>
    /\ stack' = [SubSeq(stack, 1, Len(stack) - 1) EXCEPT ![Len(stack) - 1] = <<>>]
    /\ so_far' = SubSeq(so_far, 1, Len(so_far) - 1)
    /\ UNCHANGED <<aux, notes, scale, direction, outcome, result, semi, pitch, back>>

\* line 230: the loop of a helper call ran out of options; it returns None
\* to the loop that called it
Backtrack ==
    /\ outcome = "running"
    /\ Len(stack) > 1
    /\ stack[Len(stack)] = <<>>
    /\ stack' = SubSeq(stack, 1, Len(stack) - 1)
    /\ so_far' = SubSeq(so_far, 1, Len(so_far) - 1)
    /\ UNCHANGED <<aux, notes, scale, direction, outcome, result, semi, pitch, back>>

\* line 52: the loop over the openings ran out; counterpoint returns None
Exhausted ==
    /\ outcome = "running"
    /\ Len(stack) = 1
    /\ stack[1] = <<>>
    /\ outcome' = "none"
    /\ stack' = <<>>
    /\ UNCHANGED <<aux, notes, scale, direction, so_far, result, semi, pitch, back>>

Next == Start \/ Complete \/ Descend \/ Backtrack \/ Exhausted

Spec == Init /\ [][Next]_vars

(***************************************************************************)
(* Longer cantus firmi, for the rules that need history: two pitches       *)
(* a step apart alternating, a b a b ..., up to RunLen notes.              *)
(***************************************************************************)
Alternate(a, b, n) == [i \in 1..n |-> IF i % 2 = 1 THEN a ELSE b]

RunPitches == {C4, D4}

\* the two pitches are a step apart
RunPairs == {ab \in RunPitches \X RunPitches :
                Abs(Semis(ab[1]) - Semis(ab[2])) \in MinorSecond..MajorSecond}

RunCantus == UNION {{Alternate(ab[1], ab[2], n) : ab \in RunPairs} : n \in 0..RunLen}

InitRun == InitWith(RunCantus)

SpecRun == InitRun /\ [][Next]_vars

(***************************************************************************)
(* Cantus firmi that move by step and by third, for the leap rules: every  *)
(* cantus of at most LeapLen notes over C4, D4, E4.                        *)
(***************************************************************************)
LeapPitches == {C4, D4, E4}

LeapCantus == UNION {[1..n -> LeapPitches] : n \in 0..LeapLen}

InitLeap == InitWith(LeapCantus)

SpecLeap == InitLeap /\ [][Next]_vars

(***************************************************************************)
(* Cantus firmi with F4, the note a perfect fifth under C5: every cantus   *)
(* of at most FifthLen notes over C4, D4, F4.                              *)
(***************************************************************************)
FifthLen == 3

FifthPitches == {C4, D4, F4}

FifthCantus == UNION {[1..n -> FifthPitches] : n \in 0..FifthLen}

InitFifth == InitWith(FifthCantus)

SpecFifth == InitFifth /\ [][Next]_vars

(***************************************************************************)
(* The Pitch conversions on their own: a semitone offset is converted to a *)
(* Pitch and back, then an Interval is added to the Pitch.                 *)
(***************************************************************************)
InitPitch ==
    /\ semi \in (-MaxSemi)..MaxSemi
    /\ pitch = NoPitch
    /\ back = 0
    /\ outcome = "offset"
    /\ notes = <<>>
    /\ scale \in {Scale(Note("C", "Natural"), "Ionian")}
    /\ direction = "Above"
    /\ so_far = <<>>
    /\ stack = <<>>
    /\ result = <<>>
    /\ InitAux

\* Pitch::from_semitones_from_middle_c(semi).semitones_from_middle_c()
Convert ==
    /\ outcome = "offset"
    /\ pitch' = Pitch_from_semitones_from_middle_c(semi)
    /\ back' = Pitch_semitones_from_middle_c(pitch')
    /\ outcome' = "converted"
    /\ UNCHANGED <<aux, notes, scale, direction, so_far, stack, result, semi>>

\* pitch + interval; semi becomes the offset interval.semitones() above pitch
AddInterval ==
    /\ outcome = "converted"
    /\ \E interval \in Unison..MajorSeventh :
          /\ semi' = Pitch_semitones_from_middle_c(pitch) + interval
          /\ pitch' = Pitch_add(pitch, interval)
    /\ back' = Pitch_semitones_from_middle_c(pitch')
    /\ outcome' = "added"
    /\ UNCHANGED <<aux, notes, scale, direction, so_far, stack, result>>

\* pitch - interval; semi becomes the offset interval.semitones() below pitch
SubInterval ==
    /\ outcome = "converted"
    /\ \E interval \in Unison..MajorSeventh :
          /\ semi' = Pitch_semitones_from_middle_c(pitch) - interval
          /\ pitch' = Pitch_sub(pitch, interval)
    /\ back' = Pitch_semitones_from_middle_c(pitch')
    /\ outcome' = "subtracted"
    /\ UNCHANGED <<aux, notes, scale, direction, so_far, stack, result>>

NextPitch == Convert \/ AddInterval \/ SubInterval

SpecPitch == InitPitch /\ [][NextPitch]_vars

(***************************************************************************)
(* Pitch - Pitch on its own: two pitches of any spelling, at most          *)
(* IntervalSpan octaves from octave 4, are subtracted in both orders.      *)
(***************************************************************************)
IntervalSpan == 1

IntervalPitches ==
    {Pitch(Note(base, modifier), octave) :
        base \in PitchBase, modifier \in PitchModifier,
        octave \in (4 - IntervalSpan)..(4 + IntervalSpan)}

InitInterval ==
    /\ lhs \in IntervalPitches
    /\ rhs \in IntervalPitches
    /\ forward = Unison
    /\ backward = Unison
    /\ list = <<>>
    /\ shuffled = <<>>
    /\ outcome = "operands"
    /\ notes = <<>>
    /\ scale \in {Scale(Note("C", "Natural"), "Ionian")}
    /\ direction = "Above"
    /\ so_far = <<>>
    /\ stack = <<>>
    /\ result = <<>>
    /\ semi = 0
    /\ pitch = NoPitch
    /\ back = 0

\* lhs - rhs and rhs - lhs
SubtractPitches ==
    /\ outcome = "operands"
    /\ forward' = Pitch_sub_Pitch(lhs, rhs)
    /\ backward' = Pitch_sub_Pitch(rhs, lhs)
    /\ outcome' = "interval"
    /\ UNCHANGED <<notes, scale, direction, so_far, stack, result, semi, pitch,
                   back, lhs, rhs, list, shuffled>>

NextInterval == SubtractPitches

SpecInterval == InitInterval /\ [][NextInterval]_vars

(***************************************************************************)
(* shuffle on its own: every list of at most ShuffleLen candidates over    *)
(* four pitches, repeated candidates included, is shuffled once.           *)
(***************************************************************************)
ShuffleLen == 4

ShufflePitches == {C4, D4, E4, F4}

ShuffleLists == UNION {[1..n -> ShufflePitches] : n \in 0..ShuffleLen}

InitShuffle ==
    /\ list \in ShuffleLists
    /\ shuffled = <<>>
    /\ lhs = NoPitch
    /\ rhs = NoPitch
    /\ forward = Unison
    /\ backward = Unison
    /\ outcome = "list"
    /\ notes = <<>>
    /\ scale \in {Scale(Note("C", "Natural"), "Ionian")}
    /\ direction = "Above"
    /\ so_far = <<>>
    /\ stack = <<>>
    /\ result = <<>>
    /\ semi = 0
    /\ pitch = NoPitch
    /\ back = 0

\* shuffle(&mut list), for some outcome of the random draws
Shuffle ==
    /\ outcome = "list"
    /\ shuffled' \in shuffle(list)
    /\ outcome' = "shuffled"
    /\ UNCHANGED <<notes, scale, direction, so_far, stack, result, semi, pitch,
                   back, lhs, rhs, forward, backward, list>>

NextShuffle == Shuffle

SpecShuffle == InitShuffle /\ [][NextShuffle]_vars

(***************************************************************************)
(* Properties of the result of counterpoint.                               *)
(***************************************************************************)
Found == outcome = "some"

\* the vertical interval at position i of the returned line
Vertical(i) == Pitch_sub_Pitch(result[i], notes[i])

\* the melodic motion of the returned line and of the cantus into i + 1
Motion(i) == Semis(result[i + 1]) - Semis(result[i])
CantusMotion(i) == Semis(notes[i + 1]) - Semis(notes[i])

\* C1: a returned line has exactly as many pitches as the cantus firmus.
LengthMatches == Found => Len(result) = Len(notes)

\* a line returned for a cantus of three notes or more
LengthMatchesWitness == Found /\ Len(notes) >= 3 /\ Len(result) = Len(notes)

\* C2: at every position of a returned line, the first included, the note is
\* a member of scale.notes().
ScaleMembership ==
    Found => \A i \in 1..Len(result) : Contains(Scale_notes(scale), result[i].note)

\* a returned line of three notes or more, for an interior position of which
\* a raw candidate was outside the scale
ScaleMembershipWitness ==
    /\ Found
    /\ Len(result) >= 3
    /\ \E p \in 2..(Len(result) - 1) :
          \E k \in 1..Len(InteriorRaw(notes[p], direction)) :
              ~InScale(scale, InteriorRaw(notes[p], direction)[k])

\* C3: the first note of a returned line is exactly 0, 7 or 12 semitones
\* above cantus[0] for Above, and exactly 0, 7 or 12 below it for Below.
OpeningInterval ==
    Found =>
        LET d == Semis(result[1]) - Semis(notes[1])
        IN IF direction = "Above" THEN d \in {0, 7, 12} ELSE (-d) \in {0, 7, 12}

\* C4: the last note of a returned line forms a unison or an octave with the
\* last cantus note, for a cantus of any length >= 1.
ClosingConsonance == Found => Vertical(Len(result)) = Unison

\* C5: adjacent notes of a returned line are at most 12 semitones apart and
\* never exactly 6.
LeapBound ==
    Found =>
        \A i \in 1..(Len(result) - 1) :
            Abs(Motion(i)) <= 12 /\ Abs(Motion(i)) # 6

\* a returned line that leaps, by more than a major third
LeapBoundWitness ==
    Found /\ \E i \in 1..(Len(result) - 1) : Abs(Motion(i)) > MajorThird

\* C6: when the vertical interval at i + 1 is a unison/octave or a fifth, the
\* two voices do not both move up and do not both move down into i + 1.
NoParallelPerfects ==
    Found =>
        \A i \in 1..(Len(result) - 1) :
            Vertical(i + 1) \in {Unison, PerfectFifth} =>
                /\ ~(Motion(i) > 0 /\ CantusMotion(i) > 0)
                /\ ~(Motion(i) < 0 /\ CantusMotion(i) < 0)

\* a returned line that reaches a perfect consonance with both voices moving
NoParallelPerfectsWitness ==
    /\ Found
    /\ \E i \in 1..(Len(result) - 1) :
          /\ Vertical(i + 1) \in {Unison, PerfectFifth}
          /\ Motion(i) # 0
          /\ CantusMotion(i) # 0

\* C7: a returned line has no run of more than 3 consecutive positions whose
\* vertical interval is a third, and none whose vertical interval is a sixth.
RunLengthBound ==
    Found =>
        \A i \in 1..(Len(result) - 3) :
            /\ ~ \A j \in i..(i + 3) : IsThird(Vertical(j))
            /\ ~ \A j \in i..(i + 3) : IsSixth(Vertical(j))

\* a returned line with a run of exactly 3 thirds, or of exactly 3 sixths,
\* that ends before the closing note
RunLengthBoundWitness ==
    /\ Found
    /\ \E i \in 1..(Len(result) - 4) :
          \/ /\ \A j \in i..(i + 2) : IsThird(Vertical(j))
             /\ ~IsThird(Vertical(i + 3))
          \/ /\ \A j \in i..(i + 2) : IsSixth(Vertical(j))
             /\ ~IsSixth(Vertical(i + 3))

\* whether the line so_far can be extended to the length of the cantus, each
\* note surviving the rule pipeline given the notes before it
RECURSIVE Extends(_, _, _, _)
Extends(cantus, line, sc, dir) ==
    IF Len(line) = Len(cantus)
    THEN TRUE
    ELSE LET options == Options(cantus, line, sc, dir)
         IN \E k \in 1..Len(options) : Extends(cantus, Append(line, options[k]), sc, dir)

\* whether some line of the length of the cantus starts with a surviving
\* opening and continues with surviving candidates
Solvable(cantus, sc, dir) ==
    LET openings == OpeningPitches(cantus, sc, dir)
    IN \E k \in 1..Len(openings) : Extends(cantus, <<openings[k]>>, sc, dir)

\* whether line is such a sequence
IsSolution(cantus, line, sc, dir) ==
    /\ Len(line) = Len(cantus)
    /\ \E k \in 1..Len(OpeningPitches(cantus, sc, dir)) :
          OpeningPitches(cantus, sc, dir)[k] = line[1]
    /\ \A p \in 2..Len(line) :
          LET options == Options(cantus, SubSeq(line, 1, p - 1), sc, dir)
          IN \E k \in 1..Len(options) : options[k] = line[p]

\* C8: counterpoint returns None exactly when no sequence of surviving
\* candidates exists, whatever the shuffles did; what it returns is such a
\* sequence.
Exhaustive ==
    /\ outcome = "none" => ~Solvable(notes, scale, direction)
    /\ outcome = "some" => IsSolution(notes, result, scale, direction)
    /\ (outcome \in {"none", "some"} /\ Solvable(notes, scale, direction)) => outcome = "some"

\* None returned although there were openings to try, for a cantus of three
\* notes or more
ExhaustiveWitness ==
    /\ outcome = "none"
    /\ Len(notes) >= 3
    /\ OpeningPitches(notes, scale, direction) # <<>>

\* C9: counterpoint ends with a solution or with no solution and never
\* faults, the empty cantus included.
NeverFaults == outcome # "panic"

\* C10: a semitone offset converted to a Pitch and back is the same offset,
\* and pitch + interval, pitch - interval lie interval.semitones() away.
RoundTrip == outcome \in {"converted", "added", "subtracted"} => back = semi

\* the semitone distance between the operands of the subtraction
Distance == Abs(Semis(lhs) - Semis(rhs))

\* C11 as stated: p - q equals q - p, and the interval is the smaller of the
\* two modulo-12 classes between the pitches, never more than a tritone.
SmallerClass ==
    outcome = "interval" =>
        /\ forward = backward
        /\ forward <= Tritone
        /\ forward = (IF (Distance % 12) <= 12 - (Distance % 12)
                      THEN Distance % 12
                      ELSE 12 - (Distance % 12)) % 12

\* C11: p - q equals q - p, and the interval is the distance from the lower
\* pitch up to the higher one reduced modulo 12, a value from unison to
\* major seventh.
SubtractionCommutes ==
    outcome = "interval" =>
        /\ forward = backward
        /\ forward = Distance % 12
        /\ forward \in Unison..MajorSeventh

\* the lower pitch subtracted from one more than an octave higher, the
\* interval larger than a tritone
SubtractionCommutesWitness ==
    /\ outcome = "interval"
    /\ Semis(lhs) > Semis(rhs) + 12
    /\ forward > Tritone

\* C12: every note of a returned line lies on the side of the cantus fixed
\* by direction: at or above the cantus note for Above, at or below it for
\* Below.
SideOfCantus ==
    Found =>
        \A i \in 1..Len(result) :
            IF direction = "Above"
            THEN Semis(result[i]) >= Semis(notes[i])
            ELSE Semis(result[i]) <= Semis(notes[i])

\* C13: at every position of a returned line the vertical interval is a
\* consonance: unison/octave, minor or major third, perfect fifth, minor or
\* major sixth.
VerticalConsonance ==
    Found =>
        \A i \in 1..Len(result) :
            Vertical(i) \in {Unison, MinorThird, MajorThird, PerfectFifth,
                             MinorSixth, MajorSixth}

\* C14: after a move of more than a major third in a returned line, the next
\* move, if there is one, is at most a major second and goes the other way:
\* strictly down after a leap up, strictly up after a leap down.
LeapRecovery ==
    Found =>
        \A i \in 1..(Len(result) - 2) :
            Abs(Motion(i)) > MajorThird =>
                /\ Abs(Motion(i + 1)) <= MajorSecond
                /\ Motion(i) > 0 => Motion(i + 1) < 0
                /\ Motion(i) < 0 => Motion(i + 1) > 0

\* every order the elements of val can be put in
Orders(val) ==
    {[i \in 1..Len(val) |-> val[f[i]]] :
        f \in {g \in [1..Len(val) -> 1..Len(val)] :
                 \A i, j \in 1..Len(val) : g[i] = g[j] => i = j}}

\* C15: what shuffle returns is a permutation of its input, every permutation
\* of the input, the unchanged order included, is a possible result, and
\* every candidate can come out first.
ShuffleAnyOrder ==
    outcome = "shuffled" =>
        /\ shuffled \in Orders(list)
        /\ \A order \in Orders(list) : order \in shuffle(list)
        /\ \A k \in 1..Len(list) : \E order \in shuffle(list) : order[1] = list[k]

\* a helper call is under way on the prefix so_far, for an interior position
AtInterior ==
    /\ outcome = "running"
    /\ Len(so_far) >= 1
    /\ Len(so_far) < Len(notes) - 1

\* C16: at an interior position the raw candidates are exactly the pitches
\* 7, 3, 4, 8, 9, 12, 15 and 16 semitones from the cantus note, above it for
\* Above and below it for Below.
InteriorCandidates ==
    AtInterior =>
        LET other_note == notes[Len(so_far) + 1]
            options == RawOptions(notes, so_far, direction)
            offsets == {Semis(options[k]) - Semis(other_note) : k \in 1..Len(options)}
        IN IF direction = "Above"
           THEN offsets = {7, 3, 4, 8, 9, 12, 15, 16}
           ELSE offsets = {-7, -3, -4, -8, -9, -12, -15, -16}

\* whether a raw candidate is still in options when the loop of lines
\* 159-166 runs
ReachesRepeatedNote(option) ==
    /\ InScale(scale, option)
    /\ ~ParallelPerfect(notes, so_far, option)
    /\ ~ExceedsTenth(notes, so_far, option)
    /\ ~RunTooLong(notes, so_far, option)
    /\ ~BothSkip(notes, so_far, option)

\* C17: the repeated-pitch filter removes a candidate exactly when its pitch,
\* octave included, equals both of the previous two notes of the line; the
\* same pitch class in another octave is not removed.
RepeatedExactPitch ==
    (outcome = "running" /\ Len(so_far) >= 1) =>
        LET options == RawOptions(notes, so_far, direction)
        IN \A k \in 1..Len(options) :
              ReachesRepeatedNote(options[k]) =>
                  (RepeatedNote(so_far, options[k]) <=>
                      /\ Len(so_far) > 1
                      /\ Pitch_eq(options[k], so_far[Len(so_far)])
                      /\ Pitch_eq(so_far[Len(so_far)], so_far[Len(so_far) - 1]))

\* how many entries of options are the pitch option
Count(options, option) ==
    Cardinality({k \in 1..Len(options) : Pitch_eq(options[k], option)})

\* the candidate list the innermost active loop was given
Given ==
    IF so_far = <<>>
    THEN OpeningPitches(notes, scale, direction)
    ELSE Options(notes, so_far, scale, direction)

\* the innermost active loop is about to take a pitch it has already taken
\* for this prefix
Revisits ==
    /\ outcome = "running"
    /\ stack # <<>>
    /\ stack[Len(stack)] # <<>>
    /\ LET left == stack[Len(stack)]
       IN Count(left, Head(left)) < Count(Given, Head(left))

\* the search has ended: a line was returned, or None
Ended == outcome \in {"some", "none"}

\* how many candidates each nested loop has left, outermost loop first
Left(frames) == [k \in 1..Len(frames) |-> Len(frames[k])]

\* a comes before b in the lexicographic order: a is a proper prefix of b, or
\* a is smaller where they first differ
LexLess(a, b) ==
    \/ Len(a) < Len(b) /\ \A k \in 1..Len(a) : a[k] = b[k]
    \/ \E k \in 1..Len(a) :
          /\ k <= Len(b)
          /\ a[k] < b[k]
          /\ \A j \in 1..(k - 1) : a[j] = b[j]

\* C18: for a cantus that is not empty the search ends, with a line or with
\* None at the opening level: while it runs some loop is active, nested no
\* deeper than the cantus is long, and every step either ends the search or
\* leaves the loops lexicographically less to do; and no loop takes the same
\* candidate of the same prefix twice.
SearchTerminates ==
    /\ [](outcome = "running" => stack # <<>> /\ Len(stack) <= Len(notes))
    /\ [][outcome = "running" =>
            \/ Ended'
            \/ outcome' = "running" /\ LexLess(Left(stack'), Left(stack))]_vars
    /\ [](~Revisits)

=============================================================================
